---- MODULE Spec2Model ----
(***************************************************************************)
(* Model of the MCQA prediction service: app/models/mcqa_model.py          *)
(* (MCQAModel: validation, candidate construction, batched inference,      *)
(* result assembly) and app/endpoints/mcqa_endpoints.py (HTTP routes).     *)
(*                                                                         *)
(* A Python str is a sequence of one-character strings.  A Python value is *)
(* a record [type, val] so that the isinstance checks can be taken.        *)
(* The tokenizer, the scoring model and mlflow are collaborators: each     *)
(* call either raises or returns; what they do is drawn per call (env).    *)
(***************************************************************************)
EXTENDS Integers, Sequences, FiniteSets, TLC

VARIABLES
    lifecycle,   \* the MCQAModel object: construction outcome and its config
    request,     \* the call being served: operation and arguments
    env,         \* what the collaborators do during the call
    exec,        \* what the call did: exception, results, collaborator calls
    response,    \* the HTTP response of an endpoint call
    pc,          \* per worker thread: position inside _predict_helper
    in_model     \* the threads currently inside self.model(**encoding)

vars == <<lifecycle, request, env, exec, response, pc, in_model>>

---------------------------------------------------------------------------
(* Bounds and program constants *)

\* largest batch_size_limit a model is configured with
MaxLimit == 2
\* longest chunk list a client posts to /mcqa/predict_chunk
MaxChunk == 2
\* worker threads of the transport layer
NumThreads == 2

\* MCQAConfig.number_of_choices
DefaultNumberOfChoices == 4
\* MCQAConfig.max_length
DefaultMaxLength == 512
\* MCQAConfig.batch_size_limit
DefaultBatchSizeLimit == 32
\* the choice count the /predict endpoint hard-codes
EndpointChoices == 4

\* longest batch a client submits: one above the largest limit
MaxBatch == MaxLimit + 1

---------------------------------------------------------------------------
(* Python strings *)

BLANK == <<"[", "B", "L", "A", "N", "K", "]">>

Whitespace == {" ", "\t", "\n"}

PyStr(s) == [type |-> "str", val |-> s]
PyInt == [type |-> "int", val |-> <<>>]
PyList(xs) == [type |-> "list", val |-> xs]
PyTuple(xs) == [type |-> "tuple", val |-> xs]

\* s.startswith(sub)
StartsWith(s, sub) ==
    /\ Len(sub) <= Len(s)
    /\ SubSeq(s, 1, Len(sub)) = sub

\* sub in s
Contains(s, sub) ==
    \E i \in 1..(Len(s) - Len(sub) + 1) : SubSeq(s, i, i + Len(sub) - 1) = sub

RECURSIVE LStrip(_)
LStrip(s) ==
    IF s # <<>> /\ Head(s) \in Whitespace THEN LStrip(Tail(s)) ELSE s

RECURSIVE RStrip(_)
RStrip(s) ==
    IF s # <<>> /\ s[Len(s)] \in Whitespace
    THEN RStrip(SubSeq(s, 1, Len(s) - 1))
    ELSE s

\* s.strip()
Strip(s) == RStrip(LStrip(s))

\* s.replace(old, new, 1): the first occurrence only
RECURSIVE ReplaceFirst(_, _, _)
ReplaceFirst(s, old, new) ==
    IF Len(s) < Len(old) \/ old = <<>> THEN s
    ELSE IF StartsWith(s, old)
         THEN new \o SubSeq(s, Len(old) + 1, Len(s))
         ELSE <<Head(s)>> \o ReplaceFirst(Tail(s), old, new)

\* s.replace(old, new): every non-overlapping occurrence, left to right
RECURSIVE Replace(_, _, _)
Replace(s, old, new) ==
    IF Len(s) < Len(old) \/ old = <<>> THEN s
    ELSE IF StartsWith(s, old)
         THEN new \o Replace(SubSeq(s, Len(old) + 1, Len(s)), old, new)
         ELSE <<Head(s)>> \o Replace(Tail(s), old, new)

---------------------------------------------------------------------------
(* Exceptions as values *)

NoError == [kind |-> "none", rule |-> "none", index |-> -1, a |-> -1, b |-> -1,
            inner |-> "none", cause |-> "none"]

\* ValidationError(msg): rule names the message, a and b its numbers
ValidationError(rule, a, b) ==
    [kind |-> "ValidationError", rule |-> rule, index |-> -1, a |-> a, b |-> b,
     inner |-> "none", cause |-> "none"]

\* raise ValidationError(f"Invalid input at index {idx}: {e}") from e
WrapAtIndex(idx, e) ==
    [kind |-> "ValidationError", rule |-> "invalid_at_index", index |-> idx,
     a |-> e.a, b |-> e.b, inner |-> e.rule, cause |-> e.kind]

\* raise PredictionError(...) from e
PredictionError(rule, batch_size, cause) ==
    [kind |-> "PredictionError", rule |-> rule, index |-> -1, a |-> batch_size,
     b |-> -1, inner |-> "none", cause |-> cause]

\* an exception of a collaborator or of the interpreter, propagating as it is
Raised(kind) ==
    [kind |-> kind, rule |-> "none", index |-> -1, a |-> -1, b |-> -1,
     inner |-> "none", cause |-> "none"]

---------------------------------------------------------------------------
(* Validation *)

_validate_passage(passage) ==
    IF passage.type # "str"
    THEN ValidationError("passage_not_str", -1, -1)
    ELSE IF passage.val = <<>> \/ Strip(passage.val) = <<>>
    THEN ValidationError("passage_empty", -1, -1)
    ELSE IF ~Contains(passage.val, BLANK)
    THEN ValidationError("passage_no_blank", -1, -1)
    ELSE NoError

\* the checks of one choice, in the loop of _validate_choices
ChoiceError(idx, choice) ==
    IF choice.type # "str"
    THEN ValidationError("choice_not_str", idx, -1)
    ELSE IF Strip(choice.val) = <<>>
    THEN ValidationError("choice_empty", idx, -1)
    ELSE NoError

\* enumerate() counts from 0; sequences here from 1
_validate_choices(choices, num_choices) ==
    IF choices.type # "list"
    THEN ValidationError("choices_not_list", -1, -1)
    ELSE IF Len(choices.val) # num_choices
    THEN ValidationError("wrong_choice_count", num_choices, Len(choices.val))
    ELSE LET bad == {i \in 1..Len(choices.val) :
                        ChoiceError(i - 1, choices.val[i]).kind # "none"}
         IN IF bad = {} THEN NoError
            ELSE LET i == CHOOSE i \in bad : \A j \in bad : i <= j
                 IN ChoiceError(i - 1, choices.val[i])

\* the first failure of one question, passage before choices
QuestionError(passage, choices, num_choices) ==
    LET e == _validate_passage(passage)
    IN IF e.kind # "none" THEN e ELSE _validate_choices(choices, num_choices)

\* _validate_batch_inputs reporting the last invalid question, not the first
ValidateBatchReportingLast(passages, choices_list, num_choices, batch_size_limit) ==
    IF Len(passages) # Len(choices_list)
    THEN ValidationError("length_mismatch", Len(passages), Len(choices_list))
    ELSE IF Len(passages) > batch_size_limit
    THEN ValidationError("batch_too_large", Len(passages), batch_size_limit)
    ELSE LET bad == {i \in 1..Len(passages) :
                        QuestionError(passages[i], choices_list[i], num_choices).kind
                            # "none"}
         IN IF bad = {} THEN NoError
            ELSE LET i == CHOOSE i \in bad : \A j \in bad : i >= j
                 IN WrapAtIndex(i - 1,
                        QuestionError(passages[i], choices_list[i], num_choices))

\* _validate_batch_inputs with the size test off by one (>= for >)
ValidateBatchOffByOne(passages, choices_list, num_choices, batch_size_limit) ==
    IF Len(passages) # Len(choices_list)
    THEN ValidationError("length_mismatch", Len(passages), Len(choices_list))
    ELSE IF Len(passages) >= batch_size_limit
    THEN ValidationError("batch_too_large", Len(passages), batch_size_limit)
    ELSE LET bad == {i \in 1..Len(passages) :
                        QuestionError(passages[i], choices_list[i], num_choices).kind
                            # "none"}
         IN IF bad = {} THEN NoError
            ELSE LET i == CHOOSE i \in bad : \A j \in bad : i <= j
                 IN WrapAtIndex(i - 1,
                        QuestionError(passages[i], choices_list[i], num_choices))

\* passages and choices_list are the Python lists as sequences
_validate_batch_inputs(passages, choices_list, num_choices, batch_size_limit) ==
    IF Len(passages) # Len(choices_list)
    THEN ValidationError("length_mismatch", Len(passages), Len(choices_list))
    ELSE IF Len(passages) > batch_size_limit
    THEN ValidationError("batch_too_large", Len(passages), batch_size_limit)
    ELSE LET bad == {i \in 1..Len(passages) :
                        QuestionError(passages[i], choices_list[i], num_choices).kind
                            # "none"}
         IN IF bad = {} THEN NoError
            ELSE LET i == CHOOSE i \in bad : \A j \in bad : i <= j
                 IN WrapAtIndex(i - 1,
                        QuestionError(passages[i], choices_list[i], num_choices))

---------------------------------------------------------------------------
(* Inference *)

\* what a call did; raised is NoError when the call returned
NoExec ==
    [raised |-> NoError, results |-> <<>>, tokenizer_calls |-> 0,
     model_calls |-> 0, tokenizer_input |-> <<>>, model_input |-> <<>>,
     probs |-> <<>>, preds |-> <<>>, metrics |-> <<>>]

\* [cand for choices in candidate_texts for cand in choices]
RECURSIVE Flatten(_)
Flatten(candidate_texts) ==
    IF candidate_texts = <<>> THEN <<>>
    ELSE Head(candidate_texts) \o Flatten(Tail(candidate_texts))

RECURSIVE MaxLen(_)
MaxLen(texts) ==
    IF texts = <<>> THEN 0
    ELSE LET m == MaxLen(Tail(texts))
         IN IF Len(Head(texts)) > m THEN Len(Head(texts)) ELSE m

\* one row of input_ids: truncated to max_len tokens, padded to width
EncodeRow(text, width, max_len) ==
    LET w == IF width > max_len THEN max_len ELSE width
    IN [k \in 1..w |-> IF k <= Len(text) THEN text[k] ELSE "<pad>"]

\* self.tokenizer(flat, padding=True, truncation=True, max_length=...)
Tokenize(flat_candidates, max_len) ==
    [k \in 1..Len(flat_candidates) |->
        EncodeRow(flat_candidates[k], MaxLen(flat_candidates), max_len)]

\* encoding[key].view(batch_size, num_choices, -1)
View(encoding, batch_size, num_choices) ==
    [i \in 1..batch_size |->
        [j \in 1..num_choices |-> encoding[(i - 1) * num_choices + j]]]

RECURSIVE Pow2(_)
Pow2(n) == IF n = 0 THEN 1 ELSE 2 * Pow2(n - 1)

RECURSIVE SumWeights(_)
SumWeights(row) ==
    IF row = <<>> THEN 0 ELSE Pow2(Head(row)) + SumWeights(Tail(row))

\* torch.softmax(logits, dim=-1) on one row, as fractions num/den; the
\* exponential is taken to base 2
Softmax(row) ==
    [j \in 1..Len(row) |-> [num |-> Pow2(row[j]), den |-> SumWeights(row)]]

\* the softmax taken over the flattened logits of the whole batch
ProbsOverWholeBatch(logits) ==
    [i \in 1..Len(logits) |->
        [j \in 1..Len(logits[i]) |->
            [num |-> Pow2(logits[i][j]),
             den |-> SumWeights(Flatten(logits))]]]

\* probs = torch.softmax(logits, dim=-1): logits has one row per question,
\* and the last dimension runs over that question's candidates
Probs(logits) == [i \in 1..Len(logits) |-> Softmax(logits[i])]

\* an argmax returning the last maximal value
ArgmaxLast(prow) ==
    CHOOSE j \in 1..Len(prow) :
        /\ \A k \in 1..Len(prow) : prow[k].num <= prow[j].num
        /\ \A k \in (j + 1)..Len(prow) : prow[k].num < prow[j].num

\* torch.argmax(probs, dim=-1) on one row: the first maximal value
Argmax(prow) ==
    CHOOSE j \in 1..Len(prow) :
        /\ \A k \in 1..Len(prow) : prow[k].num <= prow[j].num
        /\ \A k \in 1..(j - 1) : prow[k].num < prow[j].num

\* preds = torch.argmax(probs, dim=-1), as 1-based indices
Preds(probs) == [i \in 1..Len(probs) |-> Argmax(probs[i])]

\* a result that reads the candidate at the question's position in the batch
ResultOfCandidateAtRow(candidate_texts, probs, i) ==
    [predicted_choice |-> candidate_texts[i][i],
     confidence |-> probs[i][Argmax(probs[i])]]

\* one element of results (lines 241-247)
ResultOf(candidate_texts, probs, i) ==
    LET pred_idx == Argmax(probs[i])
    IN [predicted_choice |-> candidate_texts[i][pred_idx],
        confidence |-> probs[i][pred_idx]]

\* the mlflow.log_metric calls in program order: latency, then one per result
MetricCalls(candidate_texts, probs) ==
    <<[key |-> "mcqa/latency_ms", index |-> -1, value |-> [num |-> 0, den |-> 1]]>>
    \o [i \in 1..Len(candidate_texts) |->
            [key |-> "mcqa/confidence", index |-> i - 1,
             value |-> ResultOf(candidate_texts, probs, i).confidence]]

\* one scoring forward pass per question
InvocationsPerQuestion(batch_size) == batch_size

\* the single self.model(**encoding) call on the [batch, choices, seq] tensors
ModelInvocations(batch_size) == 1

_predict_helper(candidate_texts, e) ==
    IF candidate_texts = <<>>
    THEN [NoExec EXCEPT !.raised = Raised("IndexError")]
    ELSE
    LET batch_size == Len(candidate_texts)
        num_choices == Len(candidate_texts[1])
        flat_candidates == Flatten(candidate_texts)
        tokenized == [NoExec EXCEPT !.tokenizer_calls = 1,
                                    !.tokenizer_input = flat_candidates]
    IN
    IF e.tokenizer # "none"
    THEN [tokenized EXCEPT !.raised = Raised(e.tokenizer)]
    ELSE IF Len(flat_candidates) # batch_size * num_choices
    THEN [tokenized EXCEPT !.raised = Raised("RuntimeError")]
    ELSE
    LET encoding == View(Tokenize(flat_candidates, DefaultMaxLength),
                         batch_size, num_choices)
        called == [tokenized EXCEPT !.model_calls = ModelInvocations(batch_size),
                                    !.model_input = encoding]
    IN
    IF e.model = "OutOfMemoryError"
    THEN [called EXCEPT !.raised = PredictionError("gpu_oom", batch_size, e.model)]
    ELSE IF e.model # "none"
    THEN [called EXCEPT
            !.raised = PredictionError("prediction_failed", batch_size, e.model)]
    ELSE
    LET probs == Probs(e.logits)
        calls == MetricCalls(candidate_texts, probs)
        scored == [called EXCEPT !.probs = probs, !.preds = Preds(probs)]
    IN
    IF e.metric \in 1..Len(calls)
    THEN [scored EXCEPT !.raised = Raised("MlflowException"),
                        !.metrics = SubSeq(calls, 1, e.metric - 1)]
    ELSE [scored EXCEPT
            !.results = [i \in 1..batch_size |->
                            ResultOf(candidate_texts, probs, i)],
            !.metrics = calls]

\* [passage.replace("[BLANK]", choice) for choice in choices]
Candidates(passage, choices) ==
    [j \in 1..Len(choices.val) |-> Replace(passage.val, BLANK, choices.val[j].val)]

\* predict_blank without its call of _validate_passage
PredictBlankPassageUnchecked(passage, choices, num_choices, e) ==
    LET ec == _validate_choices(choices, num_choices)
    IN IF ec.kind # "none" THEN [NoExec EXCEPT !.raised = ec]
       ELSE _predict_helper(<<Candidates(passage, choices)>>, e)

\* returns the one result as a one-element sequence
predict_blank(passage, choices, num_choices, e) ==
    LET ec == _validate_choices(choices, num_choices)
        ep == _validate_passage(passage)
    IN IF ec.kind # "none" THEN [NoExec EXCEPT !.raised = ec]
       ELSE IF ep.kind # "none" THEN [NoExec EXCEPT !.raised = ep]
       ELSE _predict_helper(<<Candidates(passage, choices)>>, e)

predict_batch(passages, choices_list, num_choices, batch_size_limit, e) ==
    LET ev == _validate_batch_inputs(passages, choices_list, num_choices,
                                     batch_size_limit)
    IN IF ev.kind # "none" THEN [NoExec EXCEPT !.raised = ev]
       ELSE _predict_helper(
                [i \in 1..Len(passages) |-> Candidates(passages[i], choices_list[i])],
                e)

---------------------------------------------------------------------------
(* Model lifecycle *)

Unloaded ==
    [state |-> "unloaded", model_directory |-> "unset", raised |-> NoError,
     tokenizer_loaded |-> FALSE, model_loaded |-> FALSE, num_choices |-> 0,
     batch_size_limit |-> 0]

\* __init__ testing the directory only after AutoTokenizer.from_pretrained
InitCheckingAfterTokenizer(config, directory_exists) ==
    IF ~directory_exists
    THEN [Unloaded EXCEPT !.state = "failed", !.model_directory = "absent",
                          !.raised = Raised("FileNotFoundError"),
                          !.tokenizer_loaded = TRUE]
    ELSE [state |-> "ready", model_directory |-> "present", raised |-> NoError,
          tokenizer_loaded |-> TRUE, model_loaded |-> TRUE,
          num_choices |-> config.number_of_choices,
          batch_size_limit |-> config.batch_size_limit]

\* MCQAModel.__init__(config); directory_exists is model_path.exists()
MCQAModel_init(config, directory_exists) ==
    IF ~directory_exists
    THEN [Unloaded EXCEPT !.state = "failed", !.model_directory = "absent",
                          !.raised = Raised("FileNotFoundError")]
    ELSE [state |-> "ready", model_directory |-> "present", raised |-> NoError,
          tokenizer_loaded |-> TRUE, model_loaded |-> TRUE,
          num_choices |-> config.number_of_choices,
          batch_size_limit |-> config.batch_size_limit]

\* MCQAConfig(model_directory=..., batch_size_limit=limit)
MCQAConfig(limit) ==
    [number_of_choices |-> DefaultNumberOfChoices, batch_size_limit |-> limit]

\* MCQAConfig(model_directory=settings.model_directory)
DefaultConfig == MCQAConfig(DefaultBatchSizeLimit)

---------------------------------------------------------------------------
(* Inputs *)

Txt(c) == PyStr(<<c>>)

PassageOne == PyStr(<<"a", " ">> \o BLANK \o <<".">>)
PassageTwo == PyStr(BLANK \o <<"+">> \o BLANK)
PassageBare == PyStr(BLANK)
PassageNoBlank == PyStr(<<"a", "[", "B", "]">>)
PassageSpaces == PyStr(<<" ", "\t">>)
PassageEmpty == PyStr(<<>>)

ListA == PyList(<<Txt("w"), Txt("x"), Txt("y"), Txt("z")>>)
ListB == PyList(<<Txt("y"), Txt("y"), Txt("z"), Txt("w")>>)
ListBlank == PyList(<<PyStr(BLANK), Txt("x"), Txt("y"), Txt("z")>>)
ListShort == PyList(<<Txt("w"), Txt("x"), Txt("y")>>)
ListLong == PyList(<<Txt("w"), Txt("x"), Txt("y"), Txt("z"), Txt("w")>>)
ListEmptyChoice == PyList(<<Txt("w"), PyStr(<<>>), Txt("y"), Txt("z")>>)
ListSpaceChoice == PyList(<<Txt("w"), Txt("x"), Txt("y"), Txt(" ")>>)
ListShortEmpty == PyList(<<PyStr(<<>>), Txt("x"), Txt("y")>>)
ListNonStr == PyList(<<Txt("w"), PyInt, Txt("y"), Txt("z")>>)
TupleA == PyTuple(<<Txt("w"), Txt("x"), Txt("y"), Txt("z")>>)

\* what the JSON schema of the endpoints lets through: str, list of str
StrPassages ==
    {PassageOne, PassageTwo, PassageBare, PassageNoBlank, PassageSpaces,
     PassageEmpty}
StrLists ==
    {ListA, ListB, ListBlank, ListShort, ListLong, ListEmptyChoice,
     ListSpaceChoice, ListShortEmpty}

\* what a Python caller may pass
Passages == StrPassages \cup {PyInt}
ChoiceLists == StrLists \cup {ListNonStr, TupleA}

\* the questions batches of two and more are made of
BatchQuestions ==
    {[passage |-> PassageOne, choices |-> ListA],
     [passage |-> PassageTwo, choices |-> ListB],
     [passage |-> PassageNoBlank, choices |-> ListA],
     [passage |-> PassageOne, choices |-> ListShort]}

SeqsUpTo(S, n) == UNION {[1..k -> S] : k \in 0..n}

\* the argument pairs (passages, choices_list) of a batch call: up to n
\* questions; or lists of different lengths; or one question of P and L
BatchArgs(P, L, n) ==
    {<<[i \in 1..Len(qs) |-> qs[i].passage], [i \in 1..Len(qs) |-> qs[i].choices]>> :
        qs \in SeqsUpTo(BatchQuestions, n)}
    \cup {a \in SeqsUpTo({PassageOne, PassageNoBlank}, n)
                \X SeqsUpTo({ListA, ListShort}, n) : Len(a[1]) # Len(a[2])}
    \cup ([1..1 -> P] \X [1..1 -> L])

\* the logits the scoring model returns
Logits == {0, 1}

Quiet == [tokenizer |-> "none", model |-> "none", metric |-> 0, logits |-> <<>>]

\* what the collaborators may do in a call on batch_size questions of
\* num_choices candidates each: the tokenizer raises; or the scoring model
\* raises; or it returns logits and the k-th log_metric call raises (0: none)
Envs(batch_size, num_choices) ==
    {[Quiet EXCEPT !.tokenizer = "RuntimeError"],
     [Quiet EXCEPT !.model = "OutOfMemoryError"],
     [Quiet EXCEPT !.model = "RuntimeError"]}
    \cup {[Quiet EXCEPT !.logits = l, !.metric = m] :
            l \in [1..batch_size -> [1..num_choices -> Logits]],
            m \in 0..(batch_size + 1)}

---------------------------------------------------------------------------
(* HTTP endpoints *)

NoResponse == [status |-> 0, detail |-> "none"]

\* FastAPI: a returned value is 200, HTTPException(400) is 400, any other
\* exception leaving the route is 500
RouteResult(x) ==
    IF x.raised.kind = "none"
    THEN [status |-> 200, detail |-> "none"]
    ELSE [status |-> 500, detail |-> "Internal Server Error"]

\* POST /mcqa/predict
predict(passage, choices, lc, e) ==
    IF Len(choices.val) # EndpointChoices
    THEN [exec |-> NoExec,
          response |-> [status |-> 400, detail |-> "Exactly 4 choices required"]]
    ELSE LET x == predict_blank(passage, choices, lc.num_choices, e)
         IN [exec |-> x, response |-> RouteResult(x)]

\* POST /mcqa/predict_chunk
predict_chunk(passages, choices_list, lc, e) ==
    IF Len(passages) # Len(choices_list)
    THEN [exec |-> NoExec,
          response |->
            [status |-> 400,
             detail |-> "Number of passages does not match number of choices lists"]]
    ELSE LET x == predict_batch(passages, choices_list, lc.num_choices,
                                lc.batch_size_limit, e)
         IN [exec |-> x, response |-> RouteResult(x)]

---------------------------------------------------------------------------
(* State machine: one caller at a time *)

Threads == 1..NumThreads

Idle == [op |-> "idle", passages |-> <<>>, choices_list |-> <<>>]

\* collaborators that all return, the scoring model with equal logits
Calm(batch_size, num_choices) ==
    [Quiet EXCEPT !.logits = [i \in 1..batch_size |-> [j \in 1..num_choices |-> 0]]]

\* the behaviours of the collaborators a call reaches: none when the call
\* ends before the tokenizer (x is the call with collaborators that return)
Reached(x, batch_size, num_choices) ==
    IF x.tokenizer_calls = 0 THEN {Quiet} ELSE Envs(batch_size, num_choices)

Init ==
    /\ lifecycle = Unloaded
    /\ request = Idle
    /\ env = Quiet
    /\ exec = NoExec
    /\ response = NoResponse
    /\ pc = [t \in Threads |-> [at |-> "idle", op |-> "none"]]
    /\ in_model = {}

\* mcqa_model = MCQAModel(config), at import of the endpoints module
Construct ==
    /\ lifecycle.state = "unloaded"
    /\ \E limit \in 1..MaxLimit, directory_exists \in BOOLEAN :
         lifecycle' = MCQAModel_init(MCQAConfig(limit), directory_exists)
    /\ UNCHANGED <<request, env, exec, response, pc, in_model>>

Serving == lifecycle.state = "ready" /\ request.op = "idle"

CallPredictBlank ==
    /\ Serving
    /\ \E p \in Passages, c \in ChoiceLists :
         \E e \in Reached(predict_blank(p, c, lifecycle.num_choices,
                                        Calm(1, lifecycle.num_choices)),
                          1, lifecycle.num_choices) :
            /\ request' = [op |-> "predict_blank", passages |-> <<p>>,
                           choices_list |-> <<c>>]
            /\ env' = e
            /\ exec' = predict_blank(p, c, lifecycle.num_choices, e)
    /\ response' = NoResponse
    /\ UNCHANGED <<lifecycle, pc, in_model>>

CallPredictBatch ==
    /\ Serving
    /\ \E args \in BatchArgs(Passages, ChoiceLists, MaxBatch) :
         \E e \in Reached(predict_batch(args[1], args[2], lifecycle.num_choices,
                                        lifecycle.batch_size_limit,
                                        Calm(Len(args[1]), lifecycle.num_choices)),
                          Len(args[1]), lifecycle.num_choices) :
            /\ request' = [op |-> "predict_batch", passages |-> args[1],
                           choices_list |-> args[2]]
            /\ env' = e
            /\ exec' = predict_batch(args[1], args[2], lifecycle.num_choices,
                                     lifecycle.batch_size_limit, e)
    /\ response' = NoResponse
    /\ UNCHANGED <<lifecycle, pc, in_model>>

PostPredict ==
    /\ Serving
    /\ \E p \in StrPassages, c \in StrLists :
         \E e \in Reached(predict(p, c, lifecycle,
                                  Calm(1, lifecycle.num_choices)).exec,
                          1, lifecycle.num_choices) :
            /\ request' = [op |-> "POST /mcqa/predict", passages |-> <<p>>,
                           choices_list |-> <<c>>]
            /\ env' = e
            /\ exec' = predict(p, c, lifecycle, e).exec
            /\ response' = predict(p, c, lifecycle, e).response
    /\ UNCHANGED <<lifecycle, pc, in_model>>

PostPredictChunk ==
    /\ Serving
    /\ \E args \in BatchArgs(StrPassages, StrLists, MaxChunk) :
         \E e \in Reached(predict_chunk(args[1], args[2], lifecycle,
                                        Calm(Len(args[1]), lifecycle.num_choices)).exec,
                          Len(args[1]), lifecycle.num_choices) :
            /\ request' = [op |-> "POST /mcqa/predict_chunk",
                           passages |-> args[1], choices_list |-> args[2]]
            /\ env' = e
            /\ exec' = predict_chunk(args[1], args[2], lifecycle, e).exec
            /\ response' = predict_chunk(args[1], args[2], lifecycle, e).response
    /\ UNCHANGED <<lifecycle, pc, in_model>>

\* the caller has its answer; the request's objects are dropped
Return ==
    /\ request.op # "idle"
    /\ request' = Idle
    /\ env' = Quiet
    /\ exec' = NoExec
    /\ response' = NoResponse
    /\ UNCHANGED <<lifecycle, pc, in_model>>

Next ==
    \/ Construct
    \/ CallPredictBlank
    \/ CallPredictBatch
    \/ Return

\* MCQAModel called from Python
Spec == Init /\ [][Next]_vars

\* the endpoints module imported: its model is built with the default config
InitHTTP ==
    /\ lifecycle = MCQAModel_init(DefaultConfig, TRUE)
    /\ request = Idle
    /\ env = Quiet
    /\ exec = NoExec
    /\ response = NoResponse
    /\ pc = [t \in Threads |-> [at |-> "idle", op |-> "none"]]
    /\ in_model = {}

NextHTTP ==
    \/ PostPredict
    \/ PostPredictChunk
    \/ Return

\* the service behind its HTTP routes, one request at a time
SpecHTTP == InitHTTP /\ [][NextHTTP]_vars

---------------------------------------------------------------------------
(* State machine: the routes are plain functions, which the transport      *)
(* layer runs on worker threads; every thread uses the one mcqa_model.     *)
(* A thread's position is a place in _predict_helper.                      *)

At(t, place) == pc[t].at = place

Goto(t, place) == pc' = [pc EXCEPT ![t].at = place]

Leave(t) == pc' = [pc EXCEPT ![t] = [at |-> "idle", op |-> "none"]]

\* a request arrives, passes validation, and its candidate_texts are built
Accept(t) ==
    /\ lifecycle.state = "ready"
    /\ At(t, "idle")
    /\ \E op \in {"predict", "predict_chunk"} :
         pc' = [pc EXCEPT ![t] = [at |-> "validated", op |-> op]]
    /\ UNCHANGED <<lifecycle, request, env, exec, response, in_model>>

\* lines 209-220: the tokenizer returns or raises
TokenizeStep(t) ==
    /\ At(t, "validated")
    /\ \/ Goto(t, "tokenized")
       \/ Leave(t)
    /\ UNCHANGED <<lifecycle, request, env, exec, response, in_model>>

\* line 224: self.model(**encoding) is entered; nothing is waited for
EnterModel(t) ==
    /\ At(t, "tokenized")
    /\ Goto(t, "in_model")
    /\ in_model' = in_model \cup {t}
    /\ UNCHANGED <<lifecycle, request, env, exec, response>>

\* lines 224-234: the scoring model returns, or raises and the call ends
LeaveModel(t) ==
    /\ At(t, "in_model")
    /\ \/ Goto(t, "scored")
       \/ Leave(t)
    /\ in_model' = in_model \ {t}
    /\ UNCHANGED <<lifecycle, request, env, exec, response>>

\* lines 236-237: the latency metric
LogLatency(t) ==
    /\ At(t, "scored")
    /\ \/ Goto(t, "logged")
       \/ Leave(t)
    /\ UNCHANGED <<lifecycle, request, env, exec, response, in_model>>

\* lines 239-250: the results, and the return
Assemble(t) ==
    /\ At(t, "logged")
    /\ Leave(t)
    /\ UNCHANGED <<lifecycle, request, env, exec, response, in_model>>

NextThreads ==
    \E t \in Threads :
        \/ Accept(t)
        \/ TokenizeStep(t)
        \/ EnterModel(t)
        \/ LeaveModel(t)
        \/ LogLatency(t)
        \/ Assemble(t)

\* the service with its worker threads
SpecThreads == InitHTTP /\ [][NextThreads]_vars

---------------------------------------------------------------------------
(* Properties *)

\* a valid Question: a passage that is a non-blank str holding [BLANK], and
\* a list of exactly n str choices, none empty after trimming
ValidQuestion(passage, choices, n) ==
    /\ passage.type = "str"
    /\ Strip(passage.val) # <<>>
    /\ Contains(passage.val, BLANK)
    /\ choices.type = "list"
    /\ Len(choices.val) = n
    /\ \A j \in 1..Len(choices.val) :
         /\ choices.val[j].type = "str"
         /\ Strip(choices.val[j].val) # <<>>

Direct == request.op \in {"predict_blank", "predict_batch"}

Size == Len(request.passages)

SameLengths == Len(request.passages) = Len(request.choices_list)

QuestionValid(i) ==
    ValidQuestion(request.passages[i], request.choices_list[i],
                  lifecycle.num_choices)

\* the lowest index (from 1) of an invalid question of the batch
FirstInvalid == CHOOSE i \in 1..Size : ~QuestionValid(i) /\ \A j \in 1..(i - 1) : QuestionValid(j)

\* every collaborator returns: tokenizer, scoring model, mlflow
CollaboratorsReturn ==
    env.tokenizer = "none" /\ env.model = "none" /\ env.metric = 0

\* the call of the request, made with collaborators behaving as e
Perform(e) ==
    IF request.op = "predict_blank"
    THEN predict_blank(request.passages[1], request.choices_list[1],
                       lifecycle.num_choices, e)
    ELSE predict_batch(request.passages, request.choices_list,
                       lifecycle.num_choices, lifecycle.batch_size_limit, e)

\* C1: for a valid question and any scores, predict_blank returns a
\* predicted_choice that is non-empty and is one of the original choice
\* strings, unmodified (not the passage with the choice substituted).
C1_PredictedChoiceIsAnOriginalChoice ==
    (/\ request.op = "predict_blank"
     /\ QuestionValid(1)
     /\ exec.raised.kind = "none")
    => /\ Len(exec.results) = 1
       /\ exec.results[1].predicted_choice # <<>>
       /\ \E j \in 1..Len(request.choices_list[1].val) :
            exec.results[1].predicted_choice = request.choices_list[1].val[j].val

\* C2: for every valid batch of n questions, n not above batch_size_limit,
\* predict_batch returns exactly n results, and result i is what question
\* i alone gives under its own row of scores.
C2_BatchReturnsOneResultPerQuestion ==
    (/\ request.op = "predict_batch"
     /\ SameLengths
     /\ Size <= lifecycle.batch_size_limit
     /\ \A i \in 1..Size : QuestionValid(i)
     /\ CollaboratorsReturn)
    => /\ exec.raised.kind = "none"
       /\ Len(exec.results) = Size
       /\ \A i \in 1..Size :
            exec.results[i] =
                predict_blank(request.passages[i], request.choices_list[i],
                              lifecycle.num_choices,
                              [Quiet EXCEPT !.logits = <<env.logits[i]>>]).results[1]

C5_BatchSizeLimit ==
    (request.op = "predict_batch" /\ SameLengths)
    => /\ Size > lifecycle.batch_size_limit
            => /\ exec.raised.kind = "ValidationError"
               /\ exec.raised.rule = "batch_too_large"
               /\ exec.raised.a = Size
               /\ exec.raised.b = lifecycle.batch_size_limit
               /\ exec.results = <<>>
               /\ exec.tokenizer_calls = 0
               /\ exec.model_calls = 0
       /\ Size = lifecycle.batch_size_limit
            => exec.raised.rule # "batch_too_large"

\* C5 happens: one question more than the limit, every question valid
C5_Witness ==
    /\ request.op = "predict_batch"
    /\ SameLengths
    /\ Size = lifecycle.batch_size_limit + 1
    /\ \A i \in 1..Size : QuestionValid(i)
    /\ exec.raised.rule = "batch_too_large"

\* C6: for validated input, an exception of the tokenization step or of the
\* scoring step leaves the call as a PredictionError whose cause is that
\* exception, and no results are returned.
C6_CollaboratorFailureBecomesPredictionError ==
    (Direct /\ (env.tokenizer # "none" \/ env.model # "none"))
    => /\ exec.raised.kind = "PredictionError"
       /\ exec.raised.cause =
            (IF env.tokenizer # "none" THEN env.tokenizer ELSE env.model)
       /\ exec.results = <<>>

\* a request of the routes that breaks a validation rule
RequestInvalid ==
    \/ /\ request.op = "POST /mcqa/predict"
       /\ ~QuestionValid(1)
    \/ /\ request.op = "POST /mcqa/predict_chunk"
       /\ \/ ~SameLengths
          \/ Size > lifecycle.batch_size_limit
          \/ \E i \in 1..Size : ~QuestionValid(i)

\* C7: every request that fails validation is answered with status 400 and
\* a detail message, on both routes; never with a 5xx.
C7_ValidationFailureIsStatus400 ==
    RequestInvalid => (response.status = 400 /\ response.detail # "none")

\* C8: when scoring succeeded the call returns the results it would return
\* with no metric recorded, whatever mlflow does; no exception of mlflow
\* reaches the caller.
C8_MetricsAreObservationalOnly ==
    (Direct /\ exec.model_calls = 1 /\ env.tokenizer = "none" /\ env.model = "none")
    => /\ exec.raised.kind = "none"
       /\ exec.results = Perform([env EXCEPT !.metric = 0]).results

\* C9: at most one invocation of the scoring model is in progress at any
\* time, however many requests are handled concurrently.
C9_ScoringIsSerialized == Cardinality(in_model) <= 1

\* C10 as stated: a missing model directory fails the construction with a
\* ConfigurationError before tokenizer and scoring model are constructed.
C10_MissingDirectoryRaisesConfigurationError ==
    lifecycle.model_directory = "absent"
    => /\ lifecycle.raised.kind = "ConfigurationError"
       /\ ~lifecycle.tokenizer_loaded
       /\ ~lifecycle.model_loaded

\* C10 amended: a missing model directory fails the construction with a
\* FileNotFoundError before tokenizer and scoring model are constructed,
\* and no prediction is ever served by the object that failed.
C10_MissingDirectoryFailsFast ==
    lifecycle.model_directory = "absent"
    => /\ lifecycle.state = "failed"
       /\ lifecycle.raised.kind = "FileNotFoundError"
       /\ ~lifecycle.tokenizer_loaded
       /\ ~lifecycle.model_loaded
       /\ request = Idle
       /\ exec = NoExec

\* C10 happens: the construction was tried on a missing directory
C10_Witness ==
    /\ lifecycle.model_directory = "absent"
    /\ lifecycle.state = "failed"

\* the numerators of the first n entries of a row of probabilities, added up
RECURSIVE SumNums(_, _)
SumNums(prow, n) == IF n = 0 THEN 0 ELSE prow[n].num + SumNums(prow, n - 1)

\* C11: for every question of a single or batched call that returned, the
\* confidence lies in [0, 1] and is the probability of the winning candidate
\* under a normalization over that question's own num_choices candidates:
\* the question's probabilities come from its own scores and sum to 1, and
\* no other question's candidates enter the denominator.
C11_ConfidenceIsNormalizedPerQuestion ==
    (Direct /\ exec.raised.kind = "none")
    => /\ Len(exec.results) = Size
       /\ \A i \in 1..Size :
            LET c == exec.results[i].confidence
                row == exec.probs[i]
            IN /\ Len(row) = lifecycle.num_choices
               /\ 0 <= c.num /\ 0 < c.den /\ c.num <= c.den
               /\ \A j \in 1..Len(row) :
                    /\ row[j].num = Pow2(env.logits[i][j])
                    /\ row[j].den = c.den
                    /\ row[j].num <= c.num
               /\ SumNums(row, Len(row)) = c.den
               /\ c = row[exec.preds[i]]

\* a batch of two questions scored differently has returned
C11_Witness ==
    /\ request.op = "predict_batch"
    /\ Size = 2
    /\ exec.raised.kind = "none"
    /\ Len(exec.results) = 2
    /\ exec.results[1].confidence.den # exec.results[2].confidence.den
    /\ exec.results[1].confidence.num < exec.results[2].confidence.num

\* the call of the request passed validation
PassedValidation ==
    /\ Direct
    /\ SameLengths
    /\ request.op = "predict_batch" => Size <= lifecycle.batch_size_limit
    /\ \A i \in 1..Size : QuestionValid(i)

FracLeq(p, q) == p.num * q.den <= q.num * p.den

\* C13: the winning index of each question is the index of its highest
\* probability, and when several candidates share the highest probability
\* the lowest of their indices wins; the result is read at that index.
C13_WinnerIsFirstMaximum ==
    Direct
    => /\ \A i \in 1..Len(exec.preds) :
            LET row == exec.probs[i]
                w == exec.preds[i]
            IN /\ w \in 1..lifecycle.num_choices
               /\ \A k \in 1..Len(row) : FracLeq(row[k], row[w])
               /\ \A k \in 1..(w - 1) : ~FracLeq(row[w], row[k])
       /\ exec.raised.kind = "none"
          => /\ Len(exec.preds) = Size
             /\ \A i \in 1..Size :
                  /\ exec.results[i].confidence = exec.probs[i][exec.preds[i]]
                  /\ exec.results[i].predicted_choice =
                       exec.tokenizer_input[(i - 1) * lifecycle.num_choices
                                            + exec.preds[i]]

\* two candidates tie for the highest score and the lower index has won
C13_Witness ==
    /\ request.op = "predict_blank"
    /\ exec.raised.kind = "none"
    /\ Len(exec.preds) = 1
    /\ env.logits[1][1] = 0
    /\ env.logits[1][2] = 1
    /\ env.logits[1][3] = 1
    /\ exec.preds[1] = 2

\* [BLANK] starts at position k of s
BlankAt(s, k) ==
    /\ k + Len(BLANK) - 1 <= Len(s)
    /\ SubSeq(s, k, k + Len(BLANK) - 1) = BLANK

\* s from position k on, with choice written in place of every [BLANK]
RECURSIVE FillFrom(_, _, _)
FillFrom(s, k, choice) ==
    IF k > Len(s) THEN <<>>
    ELSE IF BlankAt(s, k)
         THEN choice \o FillFrom(s, k + Len(BLANK), choice)
         ELSE <<s[k]>> \o FillFrom(s, k + 1, choice)

\* C14: for every valid question the candidate set has as many entries as
\* there are choices, entry j being the passage with every occurrence of
\* [BLANK] replaced by choice j, in the order of the choices; in a batch,
\* candidate set i is built from passage i and choice list i.
C14_CandidatesSubstituteEveryBlank ==
    PassedValidation
    => /\ Size > 0 => exec.tokenizer_calls = 1
       /\ Len(exec.tokenizer_input) = Size * lifecycle.num_choices
       /\ \A i \in 1..Size :
            /\ Len(request.choices_list[i].val) = lifecycle.num_choices
            /\ \A j \in 1..Len(request.choices_list[i].val) :
                 exec.tokenizer_input[(i - 1) * lifecycle.num_choices + j] =
                     FillFrom(request.passages[i].val, 1,
                              request.choices_list[i].val[j].val)

\* a batch whose first passage holds [BLANK] twice and whose second passage
\* holds it once has been turned into candidates
C14_Witness ==
    /\ request.op = "predict_batch"
    /\ PassedValidation
    /\ Size = 2
    /\ request.passages[1] = PassageTwo
    /\ request.passages[2] = PassageOne
    /\ request.choices_list[1] # request.choices_list[2]
    /\ exec.tokenizer_calls = 1
    /\ exec.tokenizer_input[1] = <<"y", "+", "y">>
    /\ exec.tokenizer_input[5] = <<"a", " ", "w", ".">>

\* the scores of row are highest at index j, the lowest such index
HighestAt(row, j) ==
    /\ \A k \in 1..Len(row) : row[k] <= row[j]
    /\ \A k \in 1..(j - 1) : row[k] < row[j]

C16_EmptyBatchReturnsEmptyList ==
    (/\ request.op = "predict_batch"
     /\ request.passages = <<>>
     /\ request.choices_list = <<>>)
    => /\ exec.raised.kind = "none"
       /\ exec.results = <<>>

\* the rules of _validate_passage
PassageRules == {"passage_not_str", "passage_empty", "passage_no_blank"}

\* the rules of _validate_choices on a list: wrong count, empty choice
ChoicesRules == {"wrong_choice_count", "choice_empty"}

\* C17: single and batch validation agree on the rule a question violates:
\* for every question that violates both a passage rule and a choices rule,
\* the rule that predict_blank reports is the rule that predict_batch
\* reports, wrapped with index 0, for the batch holding only that question.
C17_SingleAndBatchReportTheSameRule ==
    (/\ request.op = "predict_blank"
     /\ _validate_passage(request.passages[1]).rule \in PassageRules
     /\ _validate_choices(request.choices_list[1],
                          lifecycle.num_choices).rule \in ChoicesRules)
    => LET batch == predict_batch(request.passages, request.choices_list,
                                  lifecycle.num_choices,
                                  lifecycle.batch_size_limit, Quiet).raised
       IN /\ exec.raised.kind = "ValidationError"
          /\ batch.kind = "ValidationError"
          /\ batch.rule = "invalid_at_index"
          /\ batch.index = 0
          /\ batch.inner = exec.raised.rule

=============================================================================
